---- MODULE Spec2Model ----
(***************************************************************************)
(* State-machine model of src/src/app-check/index.ts (VueFire App Check). *)
(*                                                                         *)
(* The module under study wires the Firebase App Check SDK to Vue:         *)
(*   VueFireAppCheck(options)(firebaseApp, app)   -- the setup routine     *)
(*   useAppCheckToken()                           -- inject the token ref  *)
(*   useAppCheck(name)                            -- AppCheckMap lookup    *)
(*   getAppCheckToken(name, forceRefresh)         -- lenient token fetch   *)
(* JavaScript runs each of these to completion on one execution context;   *)
(* the setup routine is modelled statement by statement (pc), and nothing  *)
(* else runs while it is in progress.                                      *)
(***************************************************************************)
EXTENDS Integers, Sequences, FiniteSets, TLC

\* ------------------------------------------------------------------ bounds
MaxSetups == 2      \* setup runs in a behaviour (over all apps)
MaxEmits == 2       \* token-change notifications the SDK emits in a run

\* ------------------------------------------------------------ value spaces
\* FirebaseApp instances (the keys of AppCheckMap).
Apps == {"app1", "app2"}

\* Token strings carried by a notification / returned by getToken.
Tokens == {"abc", "xyz"}

\* ref<string>() starts with value undefined.
Unset == "<undefined>"

\* A JavaScript value of type boolean | string | undefined (options.debug and
\* self.FIREBASE_APPCHECK_DEBUG_TOKEN).
JsUndefined == [type |-> "undefined", val |-> ""]
JsBool(b) == [type |-> "boolean", val |-> IF b THEN "true" ELSE "false"]
JsString(s) == [type |-> "string", val |-> s]

\* options.debug?: boolean | string
DebugOptions ==
  {JsUndefined, JsBool(FALSE), JsBool(TRUE), JsString(""), JsString("my-token")}

\* JavaScript truthiness, as evaluated by `if (options.debug)`.
Truthy(v) ==
  CASE v.type = "undefined" -> FALSE
    [] v.type = "boolean" -> v.val = "true"
    [] v.type = "string" -> v.val # ""

\* AppCheck instances the SDK can hand out for a FirebaseApp: a repeated
\* initializeAppCheck on one app may return the instance it returned before or
\* another one.
ClientsOf(a) == {[app |-> a, id |-> n] : n \in {1, 2}}
Clients == UNION {ClientsOf(a) : a \in Apps}

\* AppCheckMap.get(...) of a key that was never set: undefined.
NoAppCheck == [app |-> "", id |-> 0]

\* inject(...) of a key that was never provided: undefined (cells are numbered
\* from 1 in creation order).
NoCell == 0

\* forceRefresh?: boolean
ForceRefresh == {"undefined", "true"}

\* What a promise settles to: resolved with { token } or rejected with an error.
Resolved(t) == [kind |-> "resolved", token |-> t]
Rejected(e) == [kind |-> "rejected", token |-> e]
NoOutcome == [kind |-> "none", token |-> ""]
SdkOutcomes == {Resolved("abc"), Rejected("network-error")}

VARIABLES
  isClient,      \* '../shared' isClient: typeof window !== 'undefined'
  pc,            \* position inside the running setup routine, or "idle"
  cur,           \* the running setup: firebaseApp, options.debug, token, appCheck, and
                 \* the debug global as initializeAppCheck saw it
  setups,        \* per app: how many times the setup routine was called
  cells,         \* the refs created so far: sequence of [val, writes]
  provided,      \* per app: the cell provided under AppCheckTokenInjectSymbol
  debugGlobal,   \* self.FIREBASE_APPCHECK_DEBUG_TOKEN
  subs,          \* SDK side: listeners registered with onTokenChanged
  AppCheckMap,   \* the WeakMap<FirebaseApp, AppCheck>
  emits,         \* SDK side: number of notifications emitted
  ret            \* the most recent task (setup, notification callback or accessor
                 \* call): its arguments, the SDK getToken call it made and what it
                 \* gave its caller

vars ==
  <<isClient, pc, cur, setups, cells, provided, debugGlobal, subs,
    AppCheckMap, emits, ret>>

NoCur ==
  [app |-> "", debug |-> JsUndefined, token |-> NoCell, appCheck |-> NoAppCheck,
   seen |-> JsUndefined]
NoFetch ==
  [calls |-> 0, appCheck |-> NoAppCheck, forceRefresh |-> "undefined",
   outcome |-> NoOutcome]
NoRet ==
  [op |-> "none", app |-> "", forceRefresh |-> "undefined", token |-> Unset,
   threw |-> FALSE, appCheck |-> NoAppCheck, cell |-> NoCell, outcome |-> NoOutcome,
   sdk |-> NoFetch]

Init ==
  /\ isClient \in BOOLEAN
  /\ pc = "idle"
  /\ cur = NoCur
  /\ setups = [a \in Apps |-> 0]
  /\ cells = <<>>
  /\ provided = [a \in Apps |-> NoCell]
  /\ debugGlobal = JsUndefined
  /\ subs = {}
  /\ AppCheckMap = [a \in Apps |-> NoAppCheck]
  /\ emits = 0
  /\ ret = NoRet

\* ------------------------------------------------------- the setup routine
\* Variant of ServerReturns: the environment gate is missing.
ServerReturns_NoGate == FALSE

\* Line 51: `if (!isClient) return`.
ServerReturns == ~isClient

\* Setup runs so far, over all apps.
RECURSIVE SumOver(_, _)
SumOver(f, S) ==
  IF S = {} THEN 0
  ELSE LET x == CHOOSE y \in S : TRUE IN f[x] + SumOver(f, S \ {x})
SetupsRun == SumOver(setups, Apps)

\* The module function is entered with (firebaseApp, app); options come from
\* VueFireAppCheck(options).  Line 51 returns at once on the server.
SetupEnter(a, d) ==
  /\ pc = "idle"
  /\ SetupsRun < MaxSetups
  /\ setups' = [setups EXCEPT ![a] = @ + 1]
  /\ IF ServerReturns
       THEN /\ pc' = "idle"
            /\ cur' = NoCur
       ELSE /\ pc' = "provide"
            /\ cur' = [NoCur EXCEPT !.app = a, !.debug = d]
  /\ ret' = [NoRet EXCEPT !.op = "setup", !.app = a]
  /\ UNCHANGED <<isClient, cells, provided, debugGlobal, subs, AppCheckMap, emits>>

\* Lines 54-55: token = ref<string>(); app.provide(AppCheckTokenInjectSymbol, token).
SetupProvide ==
  /\ pc = "provide"
  /\ cells' = Append(cells, [val |-> Unset, writes |-> 0])
  /\ cur' = [cur EXCEPT !.token = Len(cells) + 1]
  /\ provided' = [provided EXCEPT ![cur.app] = Len(cells) + 1]
  /\ pc' = "debug"
  /\ UNCHANGED <<isClient, setups, debugGlobal, subs, AppCheckMap,
                 emits, ret>>

\* Variant of DebugGlobalAfter: the global is set to `true` whatever options.debug is.
DebugGlobalAfter_Bool(d, g) == IF Truthy(d) THEN JsBool(TRUE) ELSE g

\* Lines 57-60: the value of the debug global after the `if (options.debug)` block.
DebugGlobalAfter(d, g) == IF Truthy(d) THEN d ELSE g

SetupDebug ==
  /\ pc = "debug"
  /\ debugGlobal' = DebugGlobalAfter(cur.debug, debugGlobal)
  /\ pc' = "init"
  /\ UNCHANGED <<isClient, cur, setups, cells, provided, subs, AppCheckMap,
                 emits, ret>>

\* Line 62: appCheck = initializeAppCheck(firebaseApp, options).  The SDK reads
\* the debug global at this moment (cur.seen).
SetupInit ==
  /\ pc = "init"
  /\ \E c \in ClientsOf(cur.app) :
       cur' = [cur EXCEPT !.appCheck = c, !.seen = debugGlobal]
  /\ pc' = "subscribe"
  /\ UNCHANGED <<isClient, setups, cells, provided, debugGlobal, subs, AppCheckMap,
                 emits, ret>>

\* Lines 63-65: onTokenChanged(appCheck, callback writing `token`).
SetupSubscribe ==
  /\ pc = "subscribe"
  /\ subs' = subs \cup {[appCheck |-> cur.appCheck, cell |-> cur.token]}
  /\ pc' = "register"
  /\ UNCHANGED <<isClient, cur, setups, cells, provided, debugGlobal,
                 AppCheckMap, emits, ret>>

\* Variant of MapSet: the instance is never stored.
MapSet_Missing(m, a, c) == m

\* Variant of MapSet: insert-if-absent, an existing entry is kept.
MapSet_IfAbsent(m, a, c) == IF m[a] = NoAppCheck THEN [m EXCEPT ![a] = c] ELSE m

\* Line 66: AppCheckMap.set(firebaseApp, appCheck).
MapSet(m, a, c) == [m EXCEPT ![a] = c]

SetupRegister ==
  /\ pc = "register"
  /\ AppCheckMap' = MapSet(AppCheckMap, cur.app, cur.appCheck)
  /\ pc' = "idle"
  /\ cur' = NoCur
  /\ UNCHANGED <<isClient, setups, cells, provided, debugGlobal, subs,
                 emits, ret>>

\* ------------------------------------------------- token-change notifications
\* Variant of WriteCell: a token equal to the current value is not written.
WriteCell_Dedup(cell, t) ==
  IF cell.val = t THEN cell ELSE [val |-> t, writes |-> cell.writes + 1]

\* Lines 63-65, the callback body: `token.value = newToken.token`.
WriteCell(cell, t) == [val |-> t, writes |-> cell.writes + 1]

\* Variant of EmitEnabled: the listener may run synchronously inside setup.
EmitEnabled_Sync == TRUE

\* The SDK delivers notifications asynchronously: never inside a running setup.
EmitEnabled == pc = "idle"

\* The SDK emits { token: t } for instance c; every listener registered for c runs.
Emit(c, t) ==
  /\ EmitEnabled
  /\ emits < MaxEmits
  /\ emits' = emits + 1
  /\ ret' = [NoRet EXCEPT !.op = "onTokenChanged", !.appCheck = c, !.token = t]
  /\ cells' = [i \in 1..Len(cells) |->
                 IF [appCheck |-> c, cell |-> i] \in subs
                   THEN WriteCell(cells[i], t)
                   ELSE cells[i]]
  /\ UNCHANGED <<isClient, pc, cur, setups, provided, debugGlobal, subs, AppCheckMap>>

\* ---------------------------------------------------------------- accessors
\* Lines 21-23: inject(AppCheckTokenInjectSymbol)! -- the non-null assertion is
\* erased at run time, so a key that was never provided yields undefined.
UseAppCheckToken(a) ==
  /\ pc = "idle"
  /\ ret' = [NoRet EXCEPT !.op = "useAppCheckToken", !.app = a, !.cell = provided[a]]
  /\ UNCHANGED <<isClient, pc, cur, setups, cells, provided, debugGlobal, subs,
                 AppCheckMap, emits>>

\* Variant of useAppCheck: a missing entry raises.
useAppCheck_Throws(a) ==
  [threw |-> AppCheckMap[a] = NoAppCheck, appCheck |-> AppCheckMap[a]]

\* Lines 82-84: AppCheckMap.get(useFirebaseApp(name))! -- what the call gives its
\* caller: whether it threw, and the value returned.
useAppCheck(a) == [threw |-> FALSE, appCheck |-> AppCheckMap[a]]

UseAppCheck(a) ==
  /\ pc = "idle"
  /\ ret' = [NoRet EXCEPT !.op = "useAppCheck", !.app = a,
                          !.threw = useAppCheck(a).threw,
                          !.appCheck = useAppCheck(a).appCheck]
  /\ UNCHANGED <<isClient, pc, cur, setups, cells, provided, debugGlobal, subs,
                 AppCheckMap, emits>>

\* Variant of HasAppCheck: the SDK is called whether or not an instance exists.
HasAppCheck_Always(c) == TRUE

\* Line 97: the test `appCheck ? ... : ...`.
HasAppCheck(c) == c # NoAppCheck

\* Line 98: the arguments handed to the SDK's getToken.
GetTokenArgs(c, fr) == [NoFetch EXCEPT !.calls = 1, !.appCheck = c, !.forceRefresh = fr]

\* Variant of GetTokenResult: a rejection is swallowed into an empty token.
GetTokenResult_Swallow(o) == IF o.kind = "rejected" THEN Resolved("") ELSE o

\* Line 98: the promise returned is the SDK's own promise.
GetTokenResult(o) == o

\* Line 99: Promise.resolve({ token: '' }).
EmptyTokenResult == Resolved("")

\* Lines 92-100: getAppCheckToken(name, forceRefresh).
GetAppCheckToken(a, fr) ==
  /\ pc = "idle"
  /\ LET r == useAppCheck(a) IN
       IF r.threw
         THEN ret' = [NoRet EXCEPT !.op = "getAppCheckToken", !.app = a,
                                   !.forceRefresh = fr, !.threw = TRUE]
         ELSE IF HasAppCheck(r.appCheck)
           THEN \E o \in SdkOutcomes :
                  ret' = [NoRet EXCEPT !.op = "getAppCheckToken", !.app = a,
                                       !.forceRefresh = fr,
                                       !.appCheck = r.appCheck,
                                       !.sdk = [GetTokenArgs(r.appCheck, fr)
                                                  EXCEPT !.outcome = o],
                                       !.outcome = GetTokenResult(o)]
           ELSE ret' = [NoRet EXCEPT !.op = "getAppCheckToken", !.app = a,
                                     !.forceRefresh = fr,
                                     !.outcome = EmptyTokenResult]
  /\ UNCHANGED <<isClient, pc, cur, setups, cells, provided, debugGlobal, subs,
                 AppCheckMap, emits>>

Next ==
  \/ \E a \in Apps, d \in DebugOptions : SetupEnter(a, d)
  \/ SetupProvide
  \/ SetupDebug
  \/ SetupInit
  \/ SetupSubscribe
  \/ SetupRegister
  \/ \E c \in Clients, t \in Tokens : Emit(c, t)
  \/ \E a \in Apps : UseAppCheckToken(a)
  \/ \E a \in Apps : UseAppCheck(a)
  \/ \E a \in Apps, fr \in ForceRefresh : GetAppCheckToken(a, fr)

Spec == Init /\ [][Next]_vars

\* ================================================================ properties
\* The listeners registered for instances of app a, in a listener set S.
SubsIn(S, a) == {s \in S : s.appCheck.app = a}
SubsOf(a) == SubsIn(subs, a)

\* The steps that are accessor calls (they end with ret describing the call).
Accessors == {"useAppCheckToken", "useAppCheck", "getAppCheckToken"}

\* ------------------------------------------------------------------------ C1
\* C1: once setup has registered an instance for an app, every notification
\* delivered for that instance overwrites the app's TokenCell with the
\* notification's token, whatever the cell held before, and each delivery is one
\* write of the cell (a repeated token is written again).
C1_LastWriteWins ==
  [][\A a \in Apps :
       (/\ ret'.op = "onTokenChanged"
        /\ emits' = emits + 1
        /\ AppCheckMap[a] # NoAppCheck
        /\ ret'.appCheck = AppCheckMap[a])
       => /\ cells'[provided[a]].val = ret'.token
          /\ cells'[provided[a]].writes = cells[provided[a]].writes + 1]_vars

C1_Witness ==
  \E a \in Apps :
    /\ AppCheckMap[a] # NoAppCheck
    /\ ret.op = "onTokenChanged"
    /\ ret.appCheck = AppCheckMap[a]
    /\ cells[provided[a]].writes = 2
    /\ cells[provided[a]].val = ret.token

\* ------------------------------------------------------------------------ C2
\* C2: after setup ran on the server (isClient false) a TokenCell is provided
\* for the app, useAppCheckToken obtains it, and its value is unset.
C2_ServerCellProvided ==
  \A a \in Apps :
    (~isClient /\ pc = "idle" /\ setups[a] >= 1)
    => /\ provided[a] # NoCell
       /\ cells[provided[a]].val = Unset
       /\ (ret.op = "useAppCheckToken" /\ ret.app = a) => ret.cell # NoCell

\* ------------------------------------------------------------------------ C3
\* C3: on the server no token-change listener is ever registered and no cell
\* ever holds a token, whatever the SDK emits.
C3_ServerNeverMirrors ==
  ~isClient =>
    /\ subs = {}
    /\ \A i \in 1..Len(cells) : cells[i].val = Unset

C3_Witness ==
  /\ ~isClient
  /\ \A a \in Apps : setups[a] >= 1
  /\ ret.op = "onTokenChanged"
  /\ emits = MaxEmits

\* ------------------------------------------------------------------------ C4
\* C4: getAppCheckToken for an app with no entry in AppCheckMap resolves to
\* { token: '' }, makes no SDK getToken call, and changes neither the map nor
\* any cell.
C4_EmptyTokenWithoutClient ==
  [][(ret'.op = "getAppCheckToken" /\ AppCheckMap[ret'.app] = NoAppCheck)
       => /\ ~ret'.threw
          /\ ret'.outcome = Resolved("")
          /\ ret'.sdk.calls = 0
          /\ AppCheckMap' = AppCheckMap
          /\ cells' = cells
          /\ provided' = provided]_vars

C4_Witness ==
  /\ ret.op = "getAppCheckToken"
  /\ ret.forceRefresh = "true"
  /\ AppCheckMap[ret.app] = NoAppCheck
  /\ ret.outcome = Resolved("")

\* ------------------------------------------------------------------------ C5
\* C5 as stated: useAppCheck for an app never passed to setup fails.
C5_UninitializedAccessFails ==
  (ret.op = "useAppCheck" /\ setups[ret.app] = 0) => ret.threw

\* C5 as amended: useAppCheck for an app never passed to setup does not fail;
\* it returns undefined to its caller.
C5_UninitializedAccessReturnsUndefined ==
  (ret.op = "useAppCheck" /\ setups[ret.app] = 0)
  => (~ret.threw /\ ret.appCheck = NoAppCheck)

C5_Witness ==
  /\ ret.op = "useAppCheck"
  /\ setups[ret.app] = 0
  /\ \E b \in Apps : setups[b] >= 1 /\ AppCheckMap[b] # NoAppCheck

\* ------------------------------------------------------------------------ C6
\* C6: after exactly one client-side setup for an app, the map holds the
\* instance that setup created (the one it subscribed to), useAppCheck returns
\* it, and no later step removes or replaces the entry; accessor calls never
\* change the map.
C6_State ==
  \A a \in Apps :
    (isClient /\ pc = "idle" /\ setups[a] = 1)
    => /\ AppCheckMap[a] # NoAppCheck
       /\ {s.appCheck : s \in SubsOf(a)} = {AppCheckMap[a]}
       /\ (ret.op = "useAppCheck" /\ ret.app = a)
            => (~ret.threw /\ ret.appCheck = AppCheckMap[a])

C6_Step ==
  /\ \A a \in Apps :
       (setups[a] = 1 /\ setups'[a] = 1 /\ AppCheckMap[a] # NoAppCheck)
       => AppCheckMap'[a] = AppCheckMap[a]
  /\ ret'.op \in Accessors => AppCheckMap' = AppCheckMap

C6_StableSingleton == []C6_State /\ [][C6_Step]_vars

C6_Witness ==
  \E a \in Apps :
    /\ setups[a] = 1
    /\ emits >= 1
    /\ ret.op = "useAppCheck"
    /\ ret.app = a
    /\ ret.appCheck # NoAppCheck

\* ------------------------------------------------------------------------ C7
\* C7: getAppCheckToken for an app with a registered instance makes exactly one
\* SDK getToken call, on that instance and with the caller's forceRefresh, and
\* settles exactly as that call settled (resolved value or rejection).
C7_DelegatesToSdk ==
  (ret.op = "getAppCheckToken" /\ AppCheckMap[ret.app] # NoAppCheck)
  => /\ ~ret.threw
     /\ ret.sdk.calls = 1
     /\ ret.sdk.appCheck = AppCheckMap[ret.app]
     /\ ret.sdk.forceRefresh = ret.forceRefresh
     /\ ret.outcome = ret.sdk.outcome
     /\ ret.outcome \in SdkOutcomes

C7_Witness ==
  /\ ret.op = "getAppCheckToken"
  /\ ret.forceRefresh = "true"
  /\ ret.sdk.calls = 1
  /\ ret.outcome = Rejected("network-error")

\* ------------------------------------------------------------------------ C8
\* C8: when initializeAppCheck is called by a setup whose options.debug is
\* truthy, the debug global already holds exactly options.debug (the string,
\* when it is a string); the global is written by nothing but the debug step of
\* a setup whose options.debug is truthy, so a falsy or absent options.debug
\* leaves it unchanged.
C8_State ==
  (pc \in {"subscribe", "register"} /\ Truthy(cur.debug))
  => (cur.seen = cur.debug /\ debugGlobal = cur.debug)

C8_Step ==
  debugGlobal' # debugGlobal
  => (pc = "debug" /\ Truthy(cur.debug) /\ debugGlobal' = cur.debug)

C8_DebugBeforeInit == []C8_State /\ [][C8_Step]_vars

C8_Witness ==
  /\ pc = "subscribe"
  /\ cur.debug = JsString("my-token")
  /\ cur.seen = JsString("my-token")

\* ------------------------------------------------------------------------ C9
\* C9 as stated: once an app has a registered instance, running setup for it
\* again changes nothing: the map keeps the first instance and the app keeps
\* its single TokenCell and single listener.
C9_ResetupRejected ==
  [][\A a \in Apps :
       AppCheckMap[a] # NoAppCheck
       => /\ AppCheckMap'[a] = AppCheckMap[a]
          /\ provided'[a] = provided[a]
          /\ Cardinality(SubsIn(subs', a)) <= 1]_vars

\* C9 as amended: setup is not rejected for an app that already has an instance.
\* Every client-side setup provides a fresh TokenCell and registers one more
\* listener, so an app has as many listeners as setups were run for it, and the
\* map entry is overwritten: it holds the instance of the most recent setup,
\* the one subscribed with the cell now provided.
C9_ResetupOverwrites ==
  \A a \in Apps :
    (isClient /\ pc = "idle")
    => /\ Cardinality(SubsOf(a)) = setups[a]
       /\ setups[a] >= 1
            => /\ [appCheck |-> AppCheckMap[a], cell |-> provided[a]] \in subs
               /\ \A s \in SubsOf(a) : s.cell <= provided[a]

C9_Witness ==
  \E a \in Apps :
    /\ isClient
    /\ pc = "idle"
    /\ setups[a] = 2
    /\ \E s \in SubsOf(a) :
         /\ s.appCheck # AppCheckMap[a]
         /\ s.cell # provided[a]

\* ----------------------------------------------------------------------- C10
\* Lifecycle of app a in a state given by (map, provided cells, cells):
\* 0 UNINITIALIZED, 1 CLIENT_REGISTERED, 2 TOKEN_AVAILABLE.
LifecycleIn(m, p, cs, a) ==
  IF m[a] = NoAppCheck THEN 0
  ELSE IF p[a] = NoCell \/ cs[p[a]].val = Unset THEN 1
  ELSE 2

HoldsToken(a) == provided[a] # NoCell /\ cells[provided[a]].val # Unset

\* C10 as stated: an app's TokenCell holds a token only while an instance is
\* registered for the app, and the app's lifecycle never moves backwards.
C10_LifecycleForwardOnly ==
  /\ [](\A a \in Apps : HoldsToken(a) => AppCheckMap[a] # NoAppCheck)
  /\ [][\A a \in Apps :
          LifecycleIn(AppCheckMap', provided', cells', a)
            >= LifecycleIn(AppCheckMap, provided, cells, a)]_vars

\* C10 as amended: an app's TokenCell holds a token only while an instance is
\* registered for the app, no app returns to UNINITIALIZED, and a cell that
\* holds a token never returns to unset; the app itself can go back from
\* TOKEN_AVAILABLE to CLIENT_REGISTERED, when setup runs again and provides a
\* fresh cell.
C10_Step ==
  /\ \A a \in Apps : AppCheckMap[a] # NoAppCheck => AppCheckMap'[a] # NoAppCheck
  /\ \A i \in 1..Len(cells) : cells[i].val # Unset => cells'[i].val # Unset

C10_NoReturnToUninitialized ==
  /\ [](\A a \in Apps : HoldsToken(a) => AppCheckMap[a] # NoAppCheck)
  /\ [][C10_Step]_vars

C10_Witness ==
  \E a \in Apps :
    /\ pc = "idle"
    /\ setups[a] = 2
    /\ LifecycleIn(AppCheckMap, provided, cells, a) = 1
    /\ \E s \in SubsOf(a) : cells[s.cell].val \in Tokens
====
